---- MODULE Spec2Model ----
(***************************************************************************)
(* QA Provisioner (src/app.py): the environment lifecycle manager.         *)
(*                                                                         *)
(* The four FastAPI handlers (provision, destroy, list_envs,               *)
(* garbage_collect) are plain `def` endpoints, which FastAPI serves from a *)
(* thread pool: they run concurrently on the unsynchronised module-level   *)
(* dict STATE.  Each handler is a sequence of blocking steps (subprocess   *)
(* runs, HTTP requests, file writes); one action of the model is one such  *)
(* step of one worker thread.                                              *)
(*                                                                         *)
(* The external collaborators (GitHub, git, docker, ngrok) are the         *)
(* environment: every command run through run() may exit non-zero.         *)
(***************************************************************************)
EXTENDS Integers, Sequences, FiniteSets, TLC

\* ------------------------------------------------------------------ bounds
\* Number of requests the server handles in a run.
MaxCalls == 2

\* Number of uuid suffixes drawn in a run, i.e. of Provision requests that
\* get as far as deriving an env_id.
MaxEnvs == 1

\* Worker threads of the server's thread pool.
Threads == {1, 2}

\* Instants at which the clock (time.time(), whole seconds) is read.
Instants == {59, 60}

\* ------------------------------------------------------- program constants
\* DEFAULT_TTL = int(os.getenv("DEFAULT_TTL_MINUTES", "120"))
DEFAULT_TTL == 120
\* ttl*60
SecondsPerMinute == 60
\* port = 8080 (both stack shapes)
FixedPort == 8080
\* for _ in range(40)
PollBudget == 40
\* ALLOWED = set(os.getenv("ALLOWED_SERVICES","web,api").split(","))
ALLOWED == {"web", "api"}

\* ------------------------------------------------------------ request data
\* Services a caller may send: an allow-listed one and one that is not.
Services == {"web", "batch"}

\* Branches a caller may ask for.  The VCS collaborator resolves the first
\* two; "qa/stack" holds a docker-compose.qa.yml, "qa/image" only a
\* Dockerfile.
Branches == {"qa/stack", "qa/image", "qa/gone"}
RemoteBranches == {"qa/stack", "qa/image"}

\* ttl_minutes: Optional[int]; {} is None, {n} is the integer n.
TtlInputs == {{}, {0 - 1}, {0}, {1}}

\* r.json()["object"]["sha"] of the branch ref (digits stand for hex chars).
ShaOf(branch) ==
    IF branch = "qa/stack" THEN <<1, 0, 2, 0, 3, 0, 4, 9>>
    ELSE <<5, 0, 6, 0, 7, 0, 8, 9>>

\* req.branch.replace('/', '-')
BranchSlug(branch) ==
    CASE branch = "qa/stack" -> "qa-stack"
      [] branch = "qa/image" -> "qa-image"
      [] OTHER               -> "qa-gone"

\* an env_id without the random part
EnvIdPlain(branch, sha, suffix) == <<BranchSlug(branch), SubSeq(sha, 1, 7), 0>>

\* env_id = f"{branch.replace('/','-')}-{sha[:7]}-{uuid.uuid4().hex[:6]}"
EnvId(branch, sha, suffix) == <<BranchSlug(branch), SubSeq(sha, 1, 7), suffix>>

\* Every env_id a request can carry in this model (suffix 0: an
\* environment provisioned before the server was restarted).
AllIds == {EnvId(b, ShaOf(b), u) : b \in RemoteBranches, u \in 0..MaxEnvs}

\* workdir = BASE / env_id
Workdir(env_id) == <<"BASE", env_id>>
\* Path(env["workdir"]): the directory the stored string names
DirOf(workdir) == workdir[2]

\* the public_url ngrok reports for the tunnel opened by process `owner`
PublicUrl(owner) == <<"https", owner>>
NoUrl == <<>>
NoId == <<>>
NoRec == <<>>

\* a lookup that resolves every branch
BranchExistsAlways(branch) == TRUE

\* lines 45-52, gh_branch_exists: status 200 for the branch ref
BranchExists(branch) == branch \in RemoteBranches

\* does the repository at this branch carry docker-compose.qa.yml
RepoShape(branch) == IF branch = "qa/stack" THEN "compose" ELSE "dockerfile"

\* Python truth value of an Optional[int]
Truthy(ttl_minutes) == ttl_minutes # {} /\ ttl_minutes # {0}
TheInt(ttl_minutes) == CHOOSE n \in ttl_minutes : TRUE

\* ttl = req.ttl_minutes or DEFAULT_TTL
TtlOf(ttl_minutes) ==
    IF Truthy(ttl_minutes) THEN TheInt(ttl_minutes) ELSE DEFAULT_TTL

\* expires_at = int(time.time()) + ttl*60
ExpiresAt(clock, ttl) == clock + ttl * SecondsPerMinute

\* ------------------------------------------------------------------- state
VARIABLES
    State,          \* the module-level dict STATE: env_id -> record
    order,          \* insertion order of STATE's keys (dict iteration order)
    stateFile,      \* contents of BASE/state.json
    disk,           \* env_id -> "none" | "empty" | "compose" | "dockerfile"
    containers,     \* env_id -> "none" | "stack" | "single"
    tunnels,        \* env_id -> "none" | "starting" | "up": ngrok processes
    api4040,        \* the ngrok process serving 127.0.0.1:4040, or NoId
    now,            \* the latest reading of the clock, in whole seconds
    nextSuffix,     \* next unused uuid suffix
    calls,          \* requests accepted so far
    GITHUB_TOKEN,   \* are GITHUB_TOKEN, GITHUB_OWNER, GITHUB_REPO all set
    NGROK_AUTHTOKEN,\* is NGROK_AUTHTOKEN set
    th              \* per worker thread: position and locals of its handler

vars == <<State, order, stateFile, disk, containers, tunnels, api4040, now,
          nextSuffix, calls, GITHUB_TOKEN, NGROK_AUTHTOKEN, th>>

shared == <<State, order, stateFile, disk, containers, tunnels, api4040>>

\* the configuration read at import (lines 18-25)
config == <<GITHUB_TOKEN, NGROK_AUTHTOKEN>>

\* Locals of a handler invocation, as they are before the handler starts.
Fresh ==
    [pc |-> "idle", op |-> "none", res |-> "none",
     branch |-> "", service |-> "", ttl_minutes |-> {},
     env_id |-> NoId, port |-> 0, url |-> NoUrl, expires_at |-> 0,
     env |-> NoRec, buf |-> <<>>, gnow |-> 0, snap |-> <<>>,
     killed |-> <<>>, used |-> 0, items |-> <<>>, polls |-> 0]

\* the record of lines 120-124
Record(branch, url, port, env_id, created_at, expires_at) ==
    [branch |-> branch, sha |-> ShaOf(branch), url |-> url, port |-> port,
     workdir |-> Workdir(env_id), created_at |-> created_at,
     expires_at |-> expires_at]

\* An environment a previous run of the server provisioned at second 0
\* with ttl_minutes 1, found in state.json at import (line 16).
OldBranch == "qa/image"
OldId(branch) == EnvId(branch, ShaOf(branch), 0)
OldRecord(branch) ==
    Record(branch, PublicUrl(OldId(branch)), FixedPort, OldId(branch), 0,
           ExpiresAt(0, 1))

\* line 16: STATE is what state.json holds, or {} without the file.  The
\* file holds nothing, or one environment that is still up.
Init ==
    /\ \/ /\ State = <<>>
          /\ order = <<>>
          /\ disk = [i \in AllIds |-> "none"]
          /\ containers = [i \in AllIds |-> "none"]
          /\ tunnels = [i \in AllIds |-> "none"]
          /\ api4040 = NoId
          /\ GITHUB_TOKEN \in BOOLEAN
          /\ NGROK_AUTHTOKEN \in BOOLEAN
       \/ \E b \in {OldBranch} :
          /\ State = (OldId(b) :> OldRecord(b))
          /\ order = <<OldId(b)>>
          /\ disk = [i \in AllIds |->
                       IF i = OldId(b) THEN RepoShape(b) ELSE "none"]
          /\ containers = [i \in AllIds |->
                       IF i # OldId(b) THEN "none"
                       ELSE IF RepoShape(b) = "compose" THEN "stack"
                       ELSE "single"]
          /\ tunnels = [i \in AllIds |-> IF i = OldId(b) THEN "up" ELSE "none"]
          /\ api4040 = OldId(b)
          /\ GITHUB_TOKEN = TRUE
          /\ NGROK_AUTHTOKEN = TRUE
    /\ stateFile = State
    /\ now = 59
    /\ nextSuffix = 1
    /\ calls = 0
    /\ th = [t \in Threads |-> Fresh]

Has(env_id) == env_id \in DOMAIN State

\* The handler of a thread returns r ("ok") or raises r: the response is
\* sent and the worker is free again.
Return(s, r) == [Fresh EXCEPT !.res = r]

\* A request refused before anything was done keeps what was asked.
Reject(s, r) ==
    [Fresh EXCEPT !.res = r, !.branch = s.branch, !.service = s.service]

Idle(t) == th[t].pc = "idle"
At(t, label) == th[t].pc = label
Step(t, s) == th' = [th EXCEPT ![t] = s]
Goto(t, label) == Step(t, [th[t] EXCEPT !.pc = label])

\* a request is taken by the first idle worker of the pool
Accept(t) ==
    /\ Idle(t)
    /\ \A u \in Threads : Idle(u) => t <= u
    /\ calls < MaxCalls
    /\ calls' = calls + 1

\* int(time.time()): the clock never runs backwards
ReadClock(clock) == clock \in Instants /\ clock >= now /\ now' = clock

\* --------------------------------------------------------------- provision
\* lines 86-93: validation, branch lookup, env_id, workdir.mkdir
ProvisionCall(t) ==
    /\ Accept(t)
    /\ \E branch \in Branches, service \in Services :
         LET s0 == [Fresh EXCEPT !.op = "provision", !.branch = branch,
                                 !.service = service]
         IN  IF service \notin ALLOWED \/ ~GITHUB_TOKEN
             THEN /\ Step(t, Reject(s0, "400"))
                  /\ UNCHANGED <<disk, nextSuffix>>
             ELSE IF ~BranchExists(branch)
             THEN /\ Step(t, Reject(s0, "404"))
                  /\ UNCHANGED <<disk, nextSuffix>>
             ELSE LET env_id == EnvId(branch, ShaOf(branch), nextSuffix)
                  IN  /\ nextSuffix <= MaxEnvs
                      /\ nextSuffix' = nextSuffix + 1
                      /\ disk' = [disk EXCEPT ![env_id] =
                                    IF @ = "none" THEN "empty" ELSE @]
                      /\ Step(t, [s0 EXCEPT !.pc = "p_clone",
                                            !.env_id = env_id])
    /\ UNCHANGED <<State, order, stateFile, containers, tunnels, api4040,
                   now, config>>

\* lines 96-99: git clone into the workdir, git checkout, ensure_network;
\* any of the commands may exit non-zero, and run() then raises
\* HTTPException(500) out of the handler (checkout and the network touch
\* nothing another handler reads); git clone into a directory that is not
\* empty always does
Clone(t) ==
    /\ At(t, "p_clone")
    /\ \/ /\ disk[th[t].env_id] = "empty"
          /\ disk' = [disk EXCEPT ![th[t].env_id] = RepoShape(th[t].branch)]
          /\ \/ Goto(t, "p_build")
             \/ Step(t, Return(th[t], "500"))
       \/ /\ UNCHANGED disk
          /\ Step(t, Return(th[t], "500"))
    /\ UNCHANGED <<State, order, stateFile, containers, tunnels, api4040,
                   now, nextSuffix, calls, config>>

\* the host port a `docker run -p port:port` container publishes is taken
PortPublished(port) ==
    \E i \in AllIds : containers[i] = "single" /\ port = FixedPort

\* lines 102-114: compose.exists(); docker compose up -d --build, or
\* docker build followed by docker run -d --name env_id -p 8080:8080
\* (docker build touches nothing another handler reads)
Build(t) ==
    /\ At(t, "p_build")
    /\ \/ /\ disk[th[t].env_id] = "compose"
          /\ containers' = [containers EXCEPT ![th[t].env_id] = "stack"]
          /\ Step(t, [th[t] EXCEPT !.pc = "p_ngrok", !.port = FixedPort])
       \/ /\ disk[th[t].env_id] # "compose"
          /\ ~PortPublished(FixedPort)
          /\ containers' = [containers EXCEPT ![th[t].env_id] = "single"]
          /\ Step(t, [th[t] EXCEPT !.pc = "p_ngrok", !.port = FixedPort])
       \/ /\ UNCHANGED containers
          /\ Step(t, Return(th[t], "500"))
    /\ UNCHANGED <<State, order, stateFile, disk, tunnels, api4040, now,
                   nextSuffix, calls, config>>

\* lines 60-71: start_ngrok up to Popen.  The new ngrok process serves the
\* control endpoint on 127.0.0.1:4040 only if no other process holds it.
NgrokSpawn(t) ==
    /\ At(t, "p_ngrok")
    /\ IF ~NGROK_AUTHTOKEN
       THEN /\ Step(t, Return(th[t], "400"))
            /\ UNCHANGED <<tunnels, api4040>>
       ELSE /\ tunnels' = [tunnels EXCEPT ![th[t].env_id] = "starting"]
            /\ api4040' = IF api4040 = NoId THEN th[t].env_id ELSE api4040
            /\ Goto(t, "p_poll")
    /\ UNCHANGED <<State, order, stateFile, disk, containers, now,
                   nextSuffix, calls, config>>

\* lines 73-83: poll http://127.0.0.1:4040/api/tunnels up to 40 times; the
\* first http tunnel listed there is returned, whoever opened it; with
\* none listed in the budget, terminate the spawned process and raise
NgrokPoll(t) ==
    /\ At(t, "p_poll")
    /\ \/ /\ api4040 # NoId
          /\ tunnels' = [tunnels EXCEPT ![api4040] = "up"]
          /\ Step(t, [th[t] EXCEPT !.pc = "p_ttl", !.url = PublicUrl(api4040)])
          /\ UNCHANGED api4040
       \/ /\ IF api4040 = NoId THEN TRUE ELSE tunnels[api4040] # "up"
          /\ tunnels' = [tunnels EXCEPT ![th[t].env_id] = "none"]
          /\ api4040' = IF api4040 = th[t].env_id THEN NoId ELSE api4040
          /\ Step(t, Return(th[t], "500"))
    /\ UNCHANGED <<State, order, stateFile, disk, containers, now,
                   nextSuffix, calls, config>>

\* lines 117-118: ttl and expires_at, from the first reading of the clock;
\* req.ttl_minutes is read here for the first time
ComputeExpiry(t) ==
    /\ At(t, "p_ttl")
    /\ \E ttl_minutes \in TtlInputs, clock \in Instants :
         /\ ReadClock(clock)
         /\ Step(t, [th[t] EXCEPT !.pc = "p_commit",
                       !.ttl_minutes = ttl_minutes,
                       !.expires_at = ExpiresAt(clock, TtlOf(ttl_minutes))])
    /\ UNCHANGED <<shared, nextSuffix, calls, config>>

\* lines 120-124: STATE[env_id] = {...}; created_at is a second reading of
\* the clock
Commit(t) ==
    /\ At(t, "p_commit")
    /\ \E clock \in Instants :
         /\ ReadClock(clock)
         /\ State' = (th[t].env_id :>
                        Record(th[t].branch, th[t].url, th[t].port,
                               th[t].env_id, clock, th[t].expires_at))
                     @@ State
    /\ order' = IF Has(th[t].env_id) THEN order
                ELSE Append(order, th[t].env_id)
    /\ Goto(t, "s_dump")
    /\ UNCHANGED <<stateFile, disk, containers, tunnels, api4040,
                   nextSuffix, calls, config>>

\* ----------------------------------------------------------------- destroy
\* destroy() is left by return or by an exception; called from
\* garbage_collect (line 161) both come back into the sweep, which appends
\* the id after a return and swallows any Exception (lines 160-164)
DestroyExit(s, r) ==
    IF s.op = "gc"
    THEN [s EXCEPT !.pc = "g_loop", !.env = NoRec, !.buf = <<>>,
                   !.env_id = NoId,
                   !.killed = IF r = "ok" THEN Append(@, s.env_id) ELSE @]
    ELSE Return(s, r)

\* lines 130-132: env = STATE.get(env_id); 404 if absent
Lookup(s) ==
    IF Has(s.env_id)
    THEN [s EXCEPT !.pc = "d_clean", !.env = State[s.env_id]]
    ELSE DestroyExit(s, "404")

\* POST /destroy
DestroyCall(t) ==
    /\ Accept(t)
    /\ \E env_id \in AllIds :
         Step(t, Lookup([Fresh EXCEPT !.op = "destroy", !.env_id = env_id]))
    /\ UNCHANGED <<shared, now, nextSuffix, config>>

\* line 161: destroy(DestroyReq(env_id=env_id)) entered from the sweep
DestroyFromGc(t) ==
    /\ At(t, "d_get")
    /\ Step(t, Lookup(th[t]))
    /\ UNCHANGED <<shared, now, nextSuffix, calls, config>>

\* lines 133-139: compose.exists(); docker compose down -v takes the stack
\* down, docker rm -f env_id the container of that name
TornDown(dir, env_id) ==
    IF disk[dir] = "compose"
    THEN [containers EXCEPT ![dir] = IF @ = "stack" THEN "none" ELSE @]
    ELSE [containers EXCEPT ![env_id] = IF @ = "single" THEN "none" ELSE @]

\* lines 133-141: the teardown command and shutil.rmtree(workdir,
\* ignore_errors=True); a failure of either is swallowed
Cleanup(t) ==
    /\ At(t, "d_clean")
    /\ \/ containers' = TornDown(DirOf(th[t].env.workdir), th[t].env_id)
       \/ UNCHANGED containers
    /\ \/ disk' = [disk EXCEPT ![DirOf(th[t].env.workdir)] = "none"]
       \/ UNCHANGED disk
    /\ Goto(t, "d_del")
    /\ UNCHANGED <<State, order, stateFile, tunnels, api4040, now,
                   nextSuffix, calls, config>>

\* a removal that clears the dict
WithoutAny(f, k) == [x \in {} |-> f[x]]

\* del f[k]
Without(f, k) == [x \in DOMAIN f \ {k} |-> f[x]]
SeqWithout(q, k) == SelectSeq(q, LAMBDA x : x # k)

\* line 142: del STATE[env_id]; KeyError when the key is gone
Delete(t) ==
    /\ At(t, "d_del")
    /\ IF Has(th[t].env_id)
       THEN /\ State' = Without(State, th[t].env_id)
            /\ order' = SeqWithout(order, th[t].env_id)
            /\ Goto(t, "s_dump")
       ELSE /\ UNCHANGED <<State, order>>
            /\ Step(t, DestroyExit(th[t], "KeyError"))
    /\ UNCHANGED <<stateFile, disk, containers, tunnels, api4040, now,
                   nextSuffix, calls, config>>

\* -------------------------------------------------------------- save_state
\* save_state() is the last statement of provision and of destroy
SaveExit(s, r) == IF s.op = "provision" THEN Return(s, r) ELSE DestroyExit(s, r)

\* line 36: json.dumps(STATE, indent=2) starts serialising the dict
SaveDump(t) ==
    /\ At(t, "s_dump")
    /\ Step(t, [th[t] EXCEPT !.pc = "s_write", !.buf = State])
    /\ UNCHANGED <<shared, now, nextSuffix, calls, config>>

\* line 36: STATE_DB.write_text(...) of the serialised text.  With
\* indent set the encoder iterates the dict in Python code, so a key added
\* or removed by another thread meanwhile can end the iteration in
\* RuntimeError (dictionary changed size during iteration).
SaveWrite(t) ==
    /\ At(t, "s_write")
    /\ \/ /\ stateFile' = th[t].buf
          /\ Step(t, SaveExit(th[t], "ok"))
       \/ /\ DOMAIN State # DOMAIN th[t].buf
          /\ UNCHANGED stateFile
          /\ Step(t, SaveExit(th[t], "RuntimeError"))
    /\ UNCHANGED <<State, order, disk, containers, tunnels, api4040, now,
                   nextSuffix, calls, config>>

\* --------------------------------------------------------- garbage_collect
\* lines 156-158: now, killed = [], list(STATE.items())
GcCall(t) ==
    /\ Accept(t)
    /\ \E clock \in Instants :
         /\ ReadClock(clock)
         /\ Step(t, [Fresh EXCEPT !.op = "gc", !.pc = "g_loop",
                                  !.gnow = clock, !.snap = order])
    /\ UNCHANGED <<shared, nextSuffix, config>>

\* an expiry test that is one second early
ExpiredEarly(rec, gnow) == rec.expires_at <= gnow + 1

\* line 159: is the record expired at the sweep's now
Expired(rec, gnow) == rec.expires_at <= gnow

\* lines 158-165: next key of the snapshot; STATE[env_id] is read outside
\* the try, so a key that is gone ends the sweep in KeyError
GcLoop(t) ==
    /\ At(t, "g_loop")
    /\ LET s == th[t] IN
       IF s.snap = <<>>
       THEN Step(t, Return(s, "ok"))
       ELSE IF ~Has(Head(s.snap))
       THEN Step(t, Return(s, "KeyError"))
       ELSE IF Expired(State[Head(s.snap)], s.gnow)
       THEN Step(t, [s EXCEPT !.pc = "d_get", !.env_id = Head(s.snap),
                              !.snap = Tail(s.snap)])
       ELSE Step(t, [s EXCEPT !.snap = Tail(s.snap)])
    /\ UNCHANGED <<shared, now, nextSuffix, calls, config>>

\* --------------------------------------------------------------- list_envs
\* line 151: max(0, (v["expires_at"]-now)//60), // being floor division
MinutesRemaining(rec, clock) ==
    LET q == (rec.expires_at - clock) \div SecondsPerMinute
    IN  IF q > 0 THEN q ELSE 0

\* line 151: {"env_id": k, **v, "ttl_min": ...}
Item(k, v, clock) ==
    [env_id |-> k, rec |-> v, ttl_min |-> MinutesRemaining(v, clock)]

ItemIds(items) == {items[i].env_id : i \in DOMAIN items}

\* line 150: one step of `for k, v in STATE.items()` over the live dict.
\* The iterator raises RuntimeError when the dict's size is not the one it
\* had when the iteration began; otherwise it yields the next entry not
\* yet passed, in insertion order, or ends the loop (line 152).
ListNext(s) ==
    IF Len(order) # s.used
    THEN Return(s, "RuntimeError")
    ELSE LET rest == SelectSeq(order, LAMBDA k : k \notin ItemIds(s.items))
         IN  IF rest = <<>>
             THEN Return(s, "ok")
             ELSE [s EXCEPT !.pc = "l_next",
                            !.items = Append(@, Item(Head(rest),
                                                     State[Head(rest)],
                                                     s.gnow))]

\* GET /list, lines 148-150 up to the first entry
ListCall(t) ==
    /\ Accept(t)
    /\ \E clock \in Instants :
         /\ ReadClock(clock)
         /\ Step(t, ListNext([Fresh EXCEPT !.op = "list", !.gnow = clock,
                                           !.used = Len(order)]))
    /\ UNCHANGED <<shared, nextSuffix, config>>

\* lines 150-152: the following entries, and the return
ListLoop(t) ==
    /\ At(t, "l_next")
    /\ Step(t, ListNext(th[t]))
    /\ UNCHANGED <<shared, now, nextSuffix, calls, config>>

\* ------------------------------------------------------------ specification
Next ==
    \E t \in Threads :
       \/ ProvisionCall(t)
       \/ Clone(t)
       \/ Build(t)
       \/ NgrokSpawn(t)
       \/ NgrokPoll(t)
       \/ ComputeExpiry(t)
       \/ Commit(t)
       \/ SaveDump(t)
       \/ SaveWrite(t)
       \/ DestroyCall(t)
       \/ DestroyFromGc(t)
       \/ Cleanup(t)
       \/ Delete(t)
       \/ GcCall(t)
       \/ GcLoop(t)
       \/ ListCall(t)
       \/ ListLoop(t)

Spec == Init /\ [][Next]_vars

\* ------------------------------------------------------------- properties
Range(q) == {q[i] : i \in DOMAIN q}

\* positions of provision before the record is written (lines 86-119)
PreCommit == {"p_clone", "p_build", "p_ngrok", "p_poll", "p_ttl", "p_commit"}
\* positions of destroy after the lookup (lines 132-143)
InDestroy == {"d_clean", "d_del", "s_dump", "s_write"}

Moved(t) == th'[t] # th[t]
Provisioning(t) == th[t].op = "provision" /\ th[t].pc \in PreCommit
\* this step is provision raising before it wrote the record
ProvisionFails(t) == Provisioning(t) /\ th'[t].pc = "idle"
\* this step is the handler of a POST /destroy returning or raising
DestroyEnds(t) ==
    /\ th[t].op = "destroy" /\ th[t].pc \in InDestroy
    /\ th'[t].pc = "idle"
\* this step is the sweep of garbage_collect returning or raising
SweepEnds(t) == th[t].op = "gc" /\ th'[t].pc = "idle"

\* C1: a Provision that fails after its workdir was created leaves, once
\* it has returned its error, neither the workdir nor a container of its
\* env_id behind.
C1_FailedProvisionRolledBack ==
    [][\A t \in Threads :
         ProvisionFails(t) =>
            /\ disk'[th[t].env_id] = "none"
            /\ containers'[th[t].env_id] = "none"]_vars

\* C2: no two records in the Store at the same time have the same port.
C2_PortsDistinct ==
    \A i \in DOMAIN State, j \in DOMAIN State :
        i # j => State[i].port # State[j].port

\* C3: a Destroy handler is only ever left with ok or with NotFound (404),
\* in every interleaving with other handlers.
C3_DestroyOkOrNotFound ==
    [][\A t \in Threads :
         DestroyEnds(t) => th'[t].res \in {"ok", "404"}]_vars

\* C4: no step of a GarbageCollect sweep touches a record whose expires_at
\* is later than the now the sweep read: the record stays in the Store, its
\* workdir and containers stay, and its id is not reported as collected.
C4_SweepSparesUnexpired ==
    [][\A t \in Threads : \A id \in DOMAIN State :
         (th[t].op = "gc" /\ Moved(t) /\ State[id].expires_at > th[t].gnow)
         => /\ id \in DOMAIN State'
            /\ State'[id] = State[id]
            /\ disk'[id] = disk[id]
            /\ containers'[id] = containers[id]
            /\ id \notin Range(th'[t].killed)
            /\ th'[t].env_id # id]_vars

\* a sweep at second 59 has collected a record and is about to return,
\* and the record that expires at second 60 is still there, workdir and all
C4_Witness ==
    \E t \in Threads : \E id \in DOMAIN State :
        /\ th[t].op = "gc" /\ th[t].pc = "g_loop" /\ th[t].snap = <<>>
        /\ th[t].killed # <<>>
        /\ State[id].expires_at = th[t].gnow + 1
        /\ disk[id] # "none"

\* C5: a GarbageCollect sweep is only left by its return, after it has
\* examined every key of its snapshot.
C5_SweepNeverAborts ==
    [][\A t \in Threads :
         SweepEnds(t) => th'[t].res = "ok" /\ th[t].snap = <<>>]_vars

\* C6: a Destroy of an id that it found in the Store removes the record
\* and returns ok, whatever the teardown command and the rmtree did.
C6_DestroyRemovesAndReturnsOk ==
    [][\A t \in Threads :
         DestroyEnds(t) =>
            /\ th'[t].res = "ok"
            /\ th[t].env_id \notin DOMAIN State']_vars

\* every record is whole: built, published on a port and given a tunnel
Whole(rec) ==
    /\ rec.url # NoUrl
    /\ rec.port = FixedPort
    /\ rec.sha = ShaOf(rec.branch)

C7_StoreHoldsOnlyBuilt ==
    /\ \A id \in DOMAIN State : Whole(State[id])
    /\ \A t \in Threads : Provisioning(t) => ~Has(th[t].env_id)

C7_FailedProvisionHasNoRecord ==
    \A t \in Threads :
        (th[t].op = "provision" /\ th'[t].pc = "idle" /\ th'[t].res # "ok")
        => th[t].env_id \notin DOMAIN State'

\* C7: every record in the Store was written by a Provision that had
\* cloned, built, started and tunnelled its environment; a Provision that
\* has not got that far has no record, and a Provision that failed has
\* none when it returns its error.
C7_NoHalfBuiltRecord ==
    []C7_StoreHoldsOnlyBuilt /\ [][C7_FailedProvisionHasNoRecord]_vars

\* C8: when a Provision returns ok, the record it wrote is in the Store.
C8_PresentAtReturn ==
    [][\A t \in Threads :
         (th[t].op = "provision" /\ th[t].pc = "s_write"
            /\ th'[t].pc = "idle" /\ th'[t].res = "ok")
         => th[t].env_id \in DOMAIN State']_vars

\* this step is a Provision for a branch the VCS does not resolve
UnresolvedRequest(t) ==
    /\ th[t].pc = "idle" /\ Moved(t)
    /\ th'[t].branch \in Branches \ RemoteBranches

\* C9 as claimed: every Provision for a branch the VCS does not resolve
\* fails with 404, the Store unchanged and no workdir created.
C9_UnresolvedIs404 ==
    [][\A t \in Threads :
         UnresolvedRequest(t) =>
            /\ th'[t].pc = "idle" /\ th'[t].res = "404"
            /\ State' = State /\ disk' = disk]_vars

\* C9: every Provision for a branch the VCS does not resolve fails, the
\* Store unchanged and no workdir created: with 404 when the service is
\* allow-listed and the GitHub variables are set, with 400 otherwise.
C9_UnresolvedFails ==
    [][\A t \in Threads :
         UnresolvedRequest(t) =>
            /\ th'[t].pc = "idle"
            /\ th'[t].res = IF th'[t].service \in ALLOWED /\ GITHUB_TOKEN
                            THEN "404" ELSE "400"
            /\ State' = State /\ disk' = disk
            /\ nextSuffix' = nextSuffix]_vars

\* a Provision for the unresolved branch was refused with 404
C9_Witness ==
    \E t \in Threads :
        /\ th[t].pc = "idle" /\ th[t].res = "404"
        /\ th[t].branch = "qa/gone" /\ th[t].service \in ALLOWED

\* C10: the TTL behind expires_at is the caller's ttl_minutes when that is
\* positive and the default TTL in every other case, so with a positive
\* default expires_at is later than the clock it was computed from.
C10_TtlPositiveOrDefault ==
    [][\A t \in Threads :
         (th[t].pc = "p_ttl" /\ th'[t].pc = "p_commit") =>
            LET given == th'[t].ttl_minutes
                ttl == IF given # {} /\ TheInt(given) > 0
                       THEN TheInt(given) ELSE DEFAULT_TTL
            IN  /\ th'[t].expires_at = now' + ttl * SecondsPerMinute
                /\ th'[t].expires_at > now']_vars

\* the Provision that wrote id has returned
ProvisionOver(id) ==
    \A t \in Threads : ~(th[t].op = "provision" /\ th[t].env_id = id)
\* no Destroy of id, explicit or from a sweep, is still running
DestroyOver(id) ==
    \A t \in Threads : ~(th[t].op \in {"destroy", "gc"} /\ th[t].env_id = id)

\* C11: the state file keeps what was confirmed.  A record that is in the
\* file, whose Provision has returned and which is still in the Store is
\* in the file after every step; and an id whose removal has reached the
\* file, with no Destroy of it still running, is never written back to the
\* file by a later write.
C11_FileKeepsConfirmed ==
    [][\A id \in AllIds :
         /\ (id \in DOMAIN State /\ id \in DOMAIN stateFile
               /\ ProvisionOver(id) /\ id \in DOMAIN State')
            => id \in DOMAIN stateFile'
         /\ (id \notin DOMAIN State /\ id \notin DOMAIN stateFile
               /\ DestroyOver(id) /\ id \notin DOMAIN State')
            => id \notin DOMAIN stateFile']_vars

\* ---------------------------------------------------- env_id collisions
\* lines 86-93 when uuid.uuid4().hex[:6] comes out as the suffix of an
\* env_id that is in STATE for the same branch and sha: nothing compares
\* the new env_id with STATE, and mkdir(exist_ok=True) accepts a directory
\* that is already there.  (The ngrok process of such a Provision is
\* booked under the same env_id as the one of the stored record.)
ProvisionCollide(t) ==
    /\ Accept(t)
    /\ GITHUB_TOKEN
    /\ \E branch \in RemoteBranches, service \in Services \cap ALLOWED,
          suffix \in 0..MaxEnvs :
         LET env_id == EnvId(branch, ShaOf(branch), suffix)
         IN  /\ Has(env_id)
             /\ disk' = [disk EXCEPT ![env_id] =
                           IF @ = "none" THEN "empty" ELSE @]
             /\ Step(t, [Fresh EXCEPT !.op = "provision", !.pc = "p_clone",
                                      !.branch = branch, !.service = service,
                                      !.env_id = env_id])
    /\ UNCHANGED <<State, order, stateFile, containers, tunnels, api4040,
                   now, nextSuffix, config>>

NextCollide == Next \/ \E t \in Threads : ProvisionCollide(t)

\* the server when uuid suffixes may repeat
SpecCollide == Init /\ [][NextCollide]_vars

\* C12: a Provision whose env_id is already in the Store when it comes to
\* write its record is rejected as Conflict (409), and the Store stays as
\* it is.
C12_CommitRejectsDuplicate ==
    [][\A t \in Threads :
         (th[t].op = "provision" /\ th[t].pc = "p_commit" /\ Moved(t)
            /\ Has(th[t].env_id))
         => /\ State' = State
            /\ th'[t].pc = "idle" /\ th'[t].res = "409"]_vars

\* this step is a step of the handler of GET /list
ListStep(t) == Moved(t) /\ (th[t].op = "list" \/ th'[t].op = "list")

\* a Destroy has stopped the containers of the record or removed its
\* workdir, and the record is still in the Store
HalfDestroyed(id) ==
    /\ Has(id)
    /\ \E u \in Threads :
         /\ th[u].op \in {"destroy", "gc"} /\ th[u].env_id = id
         /\ th[u].pc = "d_del"
    /\ disk[id] = "none" \/ containers[id] = "none"

\* C13: a List call changes nothing, is only left by its return, and no
\* record it puts into its result is one that a Destroy has begun to tear
\* down while the record is still in the Store.
C13_ListReadsWholeRecords ==
    [][\A t \in Threads :
         ListStep(t) =>
            /\ State' = State /\ stateFile' = stateFile
            /\ disk' = disk /\ containers' = containers
            /\ th'[t].pc = "idle" => th'[t].res = "ok"
            /\ \A i \in DOMAIN th'[t].items \ DOMAIN th[t].items :
                 ~HalfDestroyed(th'[t].items[i].env_id)]_vars

\* this step is Provision returning its record
ProvisionReturns(t) ==
    /\ th[t].op = "provision" /\ th[t].pc = "s_write"
    /\ th'[t].pc = "idle" /\ th'[t].res = "ok"

\* the TTL a Provision is to use: the caller's when that is positive, the
\* default otherwise
TtlAsked(ttl_minutes) ==
    IF ttl_minutes # {} /\ TheInt(ttl_minutes) > 0
    THEN TheInt(ttl_minutes) ELSE DEFAULT_TTL

\* C14: when a Provision returns, the minutes remaining that a List
\* computes for its record at any reading of the clock from then on (all
\* within a second) are within one minute of the TTL the Provision was to
\* use; and the ttl_min of every item List builds is the whole minutes of
\* expires_at - now, or 0 when that is negative.
C14_ListRoundTrip ==
    [][\A t \in Threads :
         /\ (ProvisionReturns(t) /\ th[t].env_id \in DOMAIN State') =>
               \A clock \in Instants :
                  clock >= now' =>
                     LET ttl == TtlAsked(th[t].ttl_minutes)
                         shown == MinutesRemaining(State'[th[t].env_id],
                                                   clock)
                     IN  shown \in (ttl - 1)..(ttl + 1)
         /\ \A i \in DOMAIN th'[t].items :
               LET it == th'[t].items[i]
                   left == it.rec.expires_at - th'[t].gnow
               IN  /\ it.ttl_min >= 0
                   /\ left < 0 => it.ttl_min = 0
                   /\ left >= 0 =>
                        /\ it.ttl_min * SecondsPerMinute <= left
                        /\ left < (it.ttl_min + 1) * SecondsPerMinute]_vars

C16_ExpiryFromCreation ==
    [][\A t \in Threads :
         (th[t].op = "provision" /\ th[t].pc = "p_commit" /\ Moved(t)) =>
            LET rec == State'[th[t].env_id]
            IN  rec.expires_at =
                   rec.created_at
                     + TtlOf(th[t].ttl_minutes) * SecondsPerMinute]_vars

\* ------------------------------------------------ start_ngrok, poll by poll
\* lines 73-81: one pass of the loop.  The first http tunnel the control
\* endpoint lists is returned (line 78); with none listed, or with the
\* request failing, the pass ends in time.sleep(0.5).
PollOnce(t) ==
    /\ At(t, "p_poll")
    /\ th[t].polls < PollBudget
    /\ \/ /\ api4040 # NoId
          /\ tunnels' = [tunnels EXCEPT ![api4040] = "up"]
          /\ Step(t, [th[t] EXCEPT !.pc = "p_ttl", !.polls = @ + 1,
                                   !.url = PublicUrl(api4040)])
       \/ /\ IF api4040 = NoId THEN TRUE ELSE tunnels[api4040] # "up"
          /\ UNCHANGED tunnels
          /\ Step(t, [th[t] EXCEPT !.polls = @ + 1])
    /\ UNCHANGED <<State, order, stateFile, disk, containers, api4040, now,
                   nextSuffix, calls, config>>

\* a loop exit that raises without proc.terminate()
PollGiveUpLeaking(t) ==
    /\ At(t, "p_poll")
    /\ th[t].polls = PollBudget
    /\ Step(t, Return(th[t], "500"))
    /\ UNCHANGED <<shared, now, nextSuffix, calls, config>>

\* lines 82-83: the loop has run 40 times; proc.terminate() and
\* HTTPException(500)
PollGiveUp(t) ==
    /\ At(t, "p_poll")
    /\ th[t].polls = PollBudget
    /\ tunnels' = [tunnels EXCEPT ![th[t].env_id] = "none"]
    /\ api4040' = IF api4040 = th[t].env_id THEN NoId ELSE api4040
    /\ Step(t, Return(th[t], "500"))
    /\ UNCHANGED <<State, order, stateFile, disk, containers, now,
                   nextSuffix, calls, config>>

\* Provision up to the return of start_ngrok (line 116)
TunnelNext ==
    \E t \in Threads :
       \/ ProvisionCall(t)
       \/ Clone(t)
       \/ Build(t)
       \/ NgrokSpawn(t)
       \/ PollOnce(t)
       \/ PollGiveUp(t)

\* a thread inside the loop goes on running: time.sleep(0.5) returns
SpecTunnel ==
    /\ Init /\ [][TunnelNext]_vars
    /\ \A t \in Threads : WF_vars(PollOnce(t)) /\ WF_vars(PollGiveUp(t))

TunnelBudgetKept == \A t \in Threads : th[t].polls <= PollBudget

\* start_ngrok raising leaves no ngrok process of this Provision running
TunnelFailureTerminates ==
    \A t \in Threads :
        (th[t].pc \in {"p_ngrok", "p_poll"} /\ th'[t].pc = "idle")
        => tunnels'[th[t].env_id] = "none"

\* C17: tunnel acquisition makes at most 40 polls and always comes to an
\* end, with a URL or with a failure; when it fails, the ngrok process it
\* spawned, if any, has been terminated.
C17_TunnelAcquisitionBounded ==
    /\ []TunnelBudgetKept
    /\ [][TunnelFailureTerminates]_vars
    /\ \A t \in Threads : (th[t].pc = "p_poll") ~> (th[t].pc # "p_poll")

\* a Provision whose containers are up has failed in start_ngrok after its
\* 40 polls, and its ngrok process is gone
C17_Witness ==
    \E id \in AllIds : \E t \in Threads :
        /\ containers[id] # "none" /\ tunnels[id] = "none"
        /\ id \notin DOMAIN State
        /\ th[t].pc = "idle" /\ th[t].res = "500"
        /\ \A u \in Threads : th[u].env_id # id
        /\ NGROK_AUTHTOKEN

\* C18: the url of every record in the Store is the URL of the tunnel that
\* the record's own Provision opened, and no two records have the same url.
C18_OwnPublicUrl ==
    /\ \A i \in DOMAIN State : State[i].url = PublicUrl(i)
    /\ \A i \in DOMAIN State, j \in DOMAIN State :
          i # j => State[i].url # State[j].url

\* ngrok processes that are running
LiveTunnels == {i \in AllIds : tunnels[i] # "none"}
\* Provisions that have got as far as an env_id and have not written it
InProgress == {t \in Threads : Provisioning(t)}

\* C19: there are never more running tunnel processes than records in the
\* Store plus Provisions in progress, and the tunnel process of an id is
\* not running once a Destroy has removed the record of that id.
C19_NoTunnelOutlivesRecord ==
    /\ Cardinality(LiveTunnels)
          <= Cardinality(DOMAIN State) + Cardinality(InProgress)
    /\ \A i \in LiveTunnels :
          i \in DOMAIN State \/ \E t \in Threads : th[t].env_id = i

\* this step is a step of provision, or of destroy or garbage_collect
ProvisionStep(t) ==
    Moved(t) /\ (th[t].op = "provision" \/ th'[t].op = "provision")
RemovalStep(t) ==
    Moved(t) /\ (th[t].op \in {"destroy", "gc"}
                   \/ th'[t].op \in {"destroy", "gc"})
\* a request refused with 404
NotFoundStep(t) ==
    Moved(t) /\ th[t].pc = "idle" /\ th'[t].pc = "idle" /\ th'[t].res = "404"

====
